---- MODULE Spec2Model ----
(***************************************************************************)
(* Batch orchestration core of the evaluation pipeline:                    *)
(*   src/src/models/batch_state.py      BatchState, BatchStatus            *)
(*   src/src/services/state_service.py  StateService (the state store)     *)
(*   src/src/pipeline/evaluator.py      AutonomousEvaluationPipeline       *)
(*   src/src/pipeline/recovery_manager.py  RecoveryManager                 *)
(*                                                                         *)
(* Time is counted in minutes.  A day of the lookback window is a number   *)
(* 1..RECOVERY_LOOKBACK_DAYS, oldest first.  Every coroutine is a process  *)
(* whose position (pc) moves from one await to the next; an action is the  *)
(* code between two awaits together with the one store access it makes.    *)
(***************************************************************************)
EXTENDS Integers, Sequences, FiniteSets, TLC

VARIABLES
    now,        \* datetime.utcnow(), minutes
    ticks,      \* number of clock advances so far
    store,      \* batch_states collection: day -> document returned by find_one
    copies,     \* batch_states collection: day -> number of documents with that batch_date
    hasData,    \* summaries collection: day -> a summary exists for that day
    pairs,      \* day -> number of pairs of that day with no stored evaluation
    proc,       \* process -> its locals and position
    active,     \* the processes that run in this configuration
    ops,        \* number of top-level operations still to start
    faults,     \* number of collaborator exceptions raised so far
    execs,      \* history: day -> number of pipeline executions started
    retried,    \* history: day -> number of executions started from a FAILED record
    store0,     \* history: the batch_states collection at the initial state
    saved,      \* history: day -> number of save_evaluation_results calls that succeeded
    sched       \* AutonomousScheduler: its fields, loop locals and position

vars == <<now, ticks, store, copies, hasData, pairs, proc, active, ops, faults,
          execs, retried, store0, saved, sched>>

----------------------------------------------------------------------------
(* Bounds of the model *)

NumProcs == 2
MaxTicks == 1
MaxOps == 2
MaxFaults == 1
RECOVERY_LOOKBACK_DAYS == 3     \* the configured window; 7 days by default

(* Program constants *)

DefaultMaxRetries == 3
StuckMinutes == 120
BackoffBase == 5
BackoffCap == 60
ACCURACY_THRESHOLD == 8500

\* the scheduler before start()
SchedOff == [pc |-> "off"]

Procs == 1..NumProcs
Days == 1..RECOVERY_LOOKBACK_DAYS

NoTime == 0 - 1
NoAcc == 0 - 1
NoDoc == [absent |-> TRUE]

----------------------------------------------------------------------------
(* BatchStatus *)

BatchStatus == {"pending", "running", "completed", "failed", "partial",
                "skipped", "cancelled"}

StatusCanRetry_Any(s) == TRUE

StatusCanRetry(s) == s \in {"failed", "partial", "pending"}

(* BatchState: the fields the orchestration reads or writes *)

NewBatchState(t) ==
    [ status |-> "pending", previous_status |-> "none",
      updated_at |-> t, started_at |-> NoTime, completed_at |-> NoTime,
      failed_at |-> NoTime,
      retry_count |-> 0, max_retries |-> DefaultMaxRetries, retry_after |-> NoTime,
      error_message |-> "none", error_type |-> "none",
      batch_id |-> "none",
      total_pairs |-> 0, processed_pairs |-> 0,
      passed |-> 0, failed |-> 0, error_evaluations |-> 0, accuracy |-> NoAcc,
      report_generated |-> FALSE, email_sent |-> FALSE,
      is_recovery |-> FALSE, recovery_triggered_by |-> "none",
      recovery_attempted |-> FALSE, recovery_count |-> 0,
      meta_is_recovery |-> FALSE, meta_recovery_trigger |-> "none" ]

CanRetry_IgnoresCount(s, t) ==
    IF s.retry_after # NoTime /\ t < s.retry_after THEN FALSE
    ELSE StatusCanRetry(s.status)

CanRetry(s, t) ==
    IF s.retry_count >= s.max_retries THEN FALSE
    ELSE IF s.retry_after # NoTime /\ t < s.retry_after THEN FALSE
    ELSE StatusCanRetry(s.status)

IncrementRetry(s, t) ==
    [s EXCEPT !.retry_count = @ + 1, !.updated_at = t]

SetError(s, t) ==
    [s EXCEPT !.error_message = "exception", !.error_type = "exception",
              !.failed_at = t, !.status = "failed"]

GetDuration(s) ==
    IF s.started_at # NoTime /\ (s.completed_at # NoTime \/ s.failed_at # NoTime)
    THEN (IF s.completed_at # NoTime THEN s.completed_at ELSE s.failed_at) - s.started_at
    ELSE NoTime

----------------------------------------------------------------------------
(* StateService: the batch_states collection *)

UniqueIndexRejects_NoIndex(n) == FALSE

\* create_index([("batch_date", -1)], unique=True): insert_one raises
\* DuplicateKeyError when a document with that batch_date exists
UniqueIndexRejects(n) == n > 0

\* update_batch_state: what the caller's object holds after the call
UpdatedState_KeepsPrevious(doc, s, t) == [s EXCEPT !.updated_at = t]

UpdatedState(doc, s, t) ==
    [s EXCEPT !.previous_status =
                  IF doc # NoDoc /\ doc.status # s.status THEN doc.status ELSE @,
              !.updated_at = t]

StoreAfterUpdate_NoWrite(d, s) == store

\* update_batch_state: update_one({"batch_date": d}, {"$set": state.dict()}, upsert=True)
StoreAfterUpdate(d, s) == [store EXCEPT ![d] = UpdatedState(store[d], s, now)]

CopiesAfterUpdate(d) == [copies EXCEPT ![d] = IF @ = 0 THEN 1 ELSE @]

----------------------------------------------------------------------------
(* Process locals *)

NoState == [none |-> TRUE]
NoBatch == [none |-> TRUE]

IdleProc ==
    [ pc |-> "idle", sub |-> "find", task |-> "none", day |-> 0,
      st |-> NoState,       \* run_daily_evaluation: state
      sp |-> NoState,       \* should_process_batch: state
      rs |-> NoState,       \* _recover_single_batch / _find_missing_evaluations: state
      got |-> NoState,      \* a bare get_or_create_batch_state call: the value returned
      read |-> NoState,     \* the document should_process_batch decided on
      gate |-> "none",      \* should_process_batch: the boolean returned
      decided |-> NoTime,   \* utcnow() when should_process_batch decided
      raised |-> FALSE,     \* a collaborator raised during this run
      prior |-> "none",     \* status of st when run_daily_evaluation read it
      batch |-> NoBatch,    \* BatchEvaluation returned by evaluate_batch
      cur |-> 0,            \* _find_missing_evaluations: current_date
      missing |-> <<>>,     \* missing_dates
      passed |-> <<>>,      \* history: days this sweep handed to run_daily_evaluation
      idx |-> 0,            \* recover_all_missed_batches: position in sorted(missing_dates)
      recovered |-> 0, failedc |-> 0,
      result |-> "none",    \* value returned by run_daily_evaluation
      success |-> "none",   \* value returned by _recover_single_batch
      pass |-> "none",      \* "ended" once the recovery pass has returned
      count |-> 0,          \* value returned by recover_all_missed_batches
      mail |-> <<>>,        \* notifications requested since the current run began
      pairs_arg |-> <<>>,   \* evaluate_batch: pairs, each named by how its judge calls end
      i |-> 0,              \* evaluate_batch: start of the next sub-batch
      evaluation_results |-> <<>> ]

\* get_or_create_batch_state call sites, and where each returns to
GocSites == {"call_goc", "run_goc", "sp_goc", "find_goc", "rec_goc", "quick_goc"}

AfterGoc(site) ==
    CASE site = "call_goc" -> "call_done"
      [] site = "run_goc"  -> "sp_goc"
      [] site = "sp_goc"   -> "sp_decide"
      [] site = "find_goc" -> "find_check"
      [] site = "rec_goc"  -> "rec_check"
      [] site = "quick_goc" -> "quick_check"

\* the local the call site assigns the returned BatchState to
GocReturn(l, s) ==
    LET l2 == [l EXCEPT !.pc = AfterGoc(l.pc), !.sub = "find"] IN
    CASE l.pc = "call_goc" -> [l2 EXCEPT !.got = s]
      [] l.pc = "run_goc"  -> [l2 EXCEPT !.st = s, !.prior = s.status]
      [] l.pc = "sp_goc"   -> [l2 EXCEPT !.sp = s, !.read = s]
      [] l.pc = "find_goc" -> [l2 EXCEPT !.rs = s]
      [] l.pc = "rec_goc"  -> [l2 EXCEPT !.rs = s]
      [] l.pc = "quick_goc" -> [l2 EXCEPT !.rs = s]

Frame == UNCHANGED <<hasData, pairs, active, store0, sched>>
History == UNCHANGED <<execs, retried, saved>>

----------------------------------------------------------------------------
(* get_or_create_batch_state *)

\* find_one({"batch_date": d}); a document found is returned
GocFind(p) ==
    /\ p \in active
    /\ proc[p].pc \in GocSites
    /\ proc[p].sub = "find"
    /\ proc' = [proc EXCEPT ![p] =
                  IF store[@.day] # NoDoc THEN GocReturn(@, store[@.day])
                  ELSE [@ EXCEPT !.sub = "insert"]]
    /\ UNCHANGED <<now, ticks, store, copies, ops, faults>>
    /\ Frame /\ History

\* insert_one(BatchState(batch_date=d)); on DuplicateKeyError the document is read again
GocInsert(p) ==
    /\ p \in active
    /\ proc[p].pc \in GocSites
    /\ proc[p].sub = "insert"
    /\ LET d == proc[p].day IN
       IF UniqueIndexRejects(copies[d])
       THEN /\ proc' = [proc EXCEPT ![p] = GocReturn(@, store[d])]
            /\ UNCHANGED <<store, copies>>
       ELSE /\ copies' = [copies EXCEPT ![d] = @ + 1]
            /\ store' = [store EXCEPT ![d] = IF @ = NoDoc THEN NewBatchState(now) ELSE @]
            /\ proc' = [proc EXCEPT ![p] = GocReturn(@, NewBatchState(now))]
    /\ UNCHANGED <<now, ticks, ops, faults>>
    /\ Frame /\ History

\* a caller asks for the state of day d
CallGetOrCreate(p, d) ==
    /\ p \in active
    /\ proc[p].pc \in {"idle", "call_done"}
    /\ proc[p].task \in {"none", "call"}
    /\ proc' = [proc EXCEPT ![p] = [IdleProc EXCEPT !.pc = "call_goc", !.task = "call",
                                                    !.day = d]]
    /\ UNCHANGED <<now, ticks, store, copies, ops, faults>>
    /\ Frame /\ History

\* the clock advances
TickSteps == {BackoffBase, StuckMinutes}

\* positions at which a process lets wall-clock time pass: between operations
\* and while the judge evaluates the batch
Waiting == {"idle", "call_done", "run_ret", "pass_ret", "evaluate"}

Tick(dt) ==
    /\ ticks < MaxTicks
    /\ \A p \in active : proc[p].pc \in Waiting
    /\ now' = now + dt
    /\ ticks' = ticks + 1
    /\ UNCHANGED <<store, copies, proc, ops, faults>>
    /\ Frame /\ History

----------------------------------------------------------------------------
(* Concurrent callers of get_or_create_batch_state *)

Zero == [d \in Days |-> 0]

InitStore ==
    /\ now = 0 /\ ticks = 0
    /\ store \in [Days -> {NoDoc, NewBatchState(0)}]
    /\ \A d \in Days : d > 1 => store[d] = NoDoc
    /\ copies = [d \in Days |-> IF store[d] = NoDoc THEN 0 ELSE 1]
    /\ hasData = [d \in Days |-> TRUE]
    /\ pairs = Zero
    /\ proc = [p \in Procs |-> IdleProc]
    /\ active = Procs
    /\ ops = 0 /\ faults = 0
    /\ execs = Zero /\ retried = Zero /\ store0 = store /\ saved = Zero
    /\ sched = SchedOff

NextStore ==
    \/ \E p \in Procs, d \in Days : CallGetOrCreate(p, d)
    \/ \E p \in Procs : GocFind(p)
    \/ \E p \in Procs : GocInsert(p)
    \/ \E dt \in TickSteps : Tick(dt)

SpecStore == InitStore /\ [][NextStore]_vars

----------------------------------------------------------------------------
(* EvaluationService / BatchEvaluation *)

\* round(a / b, 4) in ten-thousandths (no a / b used here falls on a tie)
Round4(a, b) == (20000 * a + b) \div (2 * b)

\* BatchEvaluation.validate_accuracy: the value the constructor was given is
\* replaced by round(passed / total_evaluations, 4) when total_evaluations > 0
ValidateAccuracy(v, passed, total) == IF total > 0 THEN Round4(passed, total) ELSE v

\* _calculate_batch_statistics
BatchStatistics(p, f, e) ==
    LET total == p + f + e
        evaluable == p + f
        accuracy == IF evaluable > 0 THEN Round4(p, evaluable) ELSE 0
    IN [ passed |-> p, failed |-> f, errors |-> e, total_evaluations |-> total,
         accuracy |-> ValidateAccuracy(accuracy, p, total) ]

\* what the judge can answer for a batch: <<PASS, FAIL, ERROR>> counts
JudgeOutcomes == { <<1, 0, 0>>, <<0, 0, 1>>, <<17, 3, 0>>, <<16, 4, 0>>, <<17, 2, 1>> }

PairCounts == {0, 1, 20}

----------------------------------------------------------------------------
(* EmailService *)

\* send_alert(subject, body, priority): never raises
Alert(kind, priority) == [kind |-> kind, priority |-> priority, alert |-> FALSE]

\* send_evaluation_report(batch, path, send_alert, is_recovery)
Report(sendAlert) ==
    [kind |-> "report", priority |-> IF sendAlert THEN "high" ELSE "normal",
     alert |-> sendAlert]

----------------------------------------------------------------------------
(* StateService.should_process_batch, after its get_or_create_batch_state *)

ShouldProcessOutcome_CountOnly(s, t, data) ==
    IF s.status = "running" /\ s.started_at # NoTime
    THEN (IF t - s.started_at > StuckMinutes THEN "stuck" ELSE "no")
    ELSE IF s.retry_count >= s.max_retries THEN "no"
    ELSE IF ~data THEN "no"
    ELSE "yes"

ShouldProcessOutcome_CanRetryFirst(s, t, data) ==
    IF s.status = "completed" THEN "no"
    ELSE IF ~CanRetry(s, t) THEN "no"
    ELSE IF s.status = "running" /\ s.started_at # NoTime
    THEN (IF t - s.started_at > StuckMinutes THEN "stuck" ELSE "no")
    ELSE IF ~data THEN "no"
    ELSE "yes"

ShouldProcessOutcome_NoProbe(s, t, data) ==
    IF s.status = "completed" THEN "no"
    ELSE IF s.status = "running" /\ s.started_at # NoTime
    THEN (IF t - s.started_at > StuckMinutes THEN "stuck" ELSE "no")
    ELSE IF ~CanRetry(s, t) THEN "no"
    ELSE "yes"

ShouldProcessOutcome_NoDelay(s, t, data) ==
    IF s.status = "completed" THEN "no"
    ELSE IF s.status = "running" /\ s.started_at # NoTime
    THEN (IF t - s.started_at > StuckMinutes THEN "stuck" ELSE "no")
    ELSE IF s.retry_count >= s.max_retries \/ ~StatusCanRetry(s.status) THEN "no"
    ELSE IF ~data THEN "no"
    ELSE "yes"

ShouldProcessOutcome(s, t, data) ==
    IF s.status = "completed" THEN "no"
    ELSE IF s.status = "running" /\ s.started_at # NoTime
    THEN (IF t - s.started_at > StuckMinutes THEN "stuck" ELSE "no")
    ELSE IF ~CanRetry(s, t) THEN "no"
    ELSE IF s.retry_after # NoTime /\ t < s.retry_after THEN "no"
    ELSE IF ~data THEN "no"
    ELSE "yes"

MarkStuck(s) == [s EXCEPT !.status = "failed", !.error_message = "stuck"]

AfterGate_AlwaysRuns(should_process) == "run_mark"

\* if not should_process: return True
AfterGate(should_process) == IF should_process THEN "run_mark" ELSE "run_ret"

ShouldProcess(p) ==
    /\ p \in active
    /\ proc[p].pc = "sp_decide"
    /\ LET l == proc[p]
           d == l.day
           out == ShouldProcessOutcome(l.sp, now, hasData[d])
       IN CASE out = "stuck" ->
                 /\ store' = StoreAfterUpdate(d, MarkStuck(l.sp))
                 /\ copies' = CopiesAfterUpdate(d)
                 /\ proc' = [proc EXCEPT ![p] =
                       [@ EXCEPT !.sp = UpdatedState(store[d], MarkStuck(l.sp), now),
                                 !.gate = "true", !.decided = now, !.pc = AfterGate(TRUE)]]
            [] out = "yes" ->
                 /\ proc' = [proc EXCEPT ![p] = [@ EXCEPT !.gate = "true", !.decided = now,
                                                          !.pc = AfterGate(TRUE)]]
                 /\ UNCHANGED <<store, copies>>
            [] out = "no" ->
                 \* run_daily_evaluation returns True: nothing to do
                 /\ proc' = [proc EXCEPT ![p] =
                       [@ EXCEPT !.gate = "false", !.decided = now, !.result = "true",
                                 !.pc = AfterGate(FALSE)]]
                 /\ UNCHANGED <<store, copies>>
    /\ UNCHANGED <<now, ticks, ops, faults>>
    /\ Frame /\ History

----------------------------------------------------------------------------
(* AutonomousEvaluationPipeline.run_daily_evaluation *)

StartRun(p, d) ==
    /\ p \in active
    /\ proc[p].pc \in {"idle", "run_ret", "pass_ret"}
    /\ proc[p].task \in {"none", "run"} \/ proc[p].pc = "pass_ret"
    /\ ops > 0
    /\ ops' = ops - 1
    /\ proc' = [proc EXCEPT ![p] = [IdleProc EXCEPT !.pc = "run_goc", !.task = "run",
                                                    !.day = d]]
    /\ UNCHANGED <<now, ticks, store, copies, faults>>
    /\ Frame /\ History

\* state.status = RUNNING; state.started_at = utcnow();
\* if state.status == FAILED: state.increment_retry(); update_batch_state(state)
RunningState_IncrementsOnRetry(s, t) ==
    LET r == [s EXCEPT !.status = "running", !.started_at = t]
    IN IF s.status = "failed" THEN IncrementRetry(r, t) ELSE r

RunningState_AlwaysIncrements(s, t) ==
    IncrementRetry([s EXCEPT !.status = "running", !.started_at = t], t)

RunningState(s, t) ==
    LET r == [s EXCEPT !.status = "running", !.started_at = t]
    IN IF r.status = "failed" THEN IncrementRetry(r, t) ELSE r

MarkRunning(p) ==
    /\ p \in active
    /\ proc[p].pc = "run_mark"
    /\ LET l == proc[p]
           d == l.day
           r == RunningState(l.st, now)
       IN /\ store' = StoreAfterUpdate(d, r)
          /\ copies' = CopiesAfterUpdate(d)
          /\ proc' = [proc EXCEPT ![p] =
                [@ EXCEPT !.st = UpdatedState(store[d], r, now), !.pc = "fetch"]]
          /\ execs' = [execs EXCEPT ![d] = @ + 1]
          /\ retried' = [retried EXCEPT ![d] = IF l.prior = "failed" THEN @ + 1 ELSE @]
    /\ UNCHANGED <<now, ticks, ops, faults, saved>>
    /\ Frame

\* a collaborator raises: control goes to the except clause of run_daily_evaluation
RaiseWith(p, l) ==
    /\ faults < MaxFaults
    /\ faults' = faults + 1
    /\ proc' = [proc EXCEPT ![p] = [l EXCEPT !.raised = TRUE, !.pc = "fail"]]
    /\ UNCHANGED <<now, ticks, store, copies, ops, pairs>>
    /\ UNCHANGED <<hasData, active, store0, sched>> /\ History

Raise(p) == RaiseWith(p, proc[p])

\* Step 1: get_unevaluated_pairs; an empty day is recorded as SKIPPED
EmptyState(s, t) ==
    [s EXCEPT !.total_pairs = 0, !.processed_pairs = 0, !.batch_id = "empty",
              !.status = "skipped", !.completed_at = t]

FetchPairs(p) ==
    /\ p \in active
    /\ proc[p].pc = "fetch"
    /\ \/ Raise(p)
       \/ /\ LET l == proc[p]
                 d == l.day
                 s == IF pairs[d] = 0 THEN EmptyState(l.st, now)
                      ELSE [l.st EXCEPT !.total_pairs = pairs[d]]
             IN /\ store' = StoreAfterUpdate(d, s)
                /\ copies' = CopiesAfterUpdate(d)
                /\ proc' = [proc EXCEPT ![p] =
                      [@ EXCEPT !.st = UpdatedState(store[d], s, now),
                                !.batch = IF pairs[d] = 0 THEN BatchStatistics(0, 0, 0)
                                          ELSE @,
                                !.pc = IF pairs[d] = 0 THEN "empty_notify" ELSE "evaluate"]]
          /\ UNCHANGED <<now, ticks, ops, faults>>
          /\ Frame /\ History

\* _send_empty_batch_notification, then return empty_batch
NotifyEmpty(p) ==
    /\ p \in active
    /\ proc[p].pc = "empty_notify"
    /\ proc' = [proc EXCEPT ![p] =
          [@ EXCEPT !.mail = Append(@, Alert("no_data", "low")), !.pc = "complete"]]
    /\ UNCHANGED <<now, ticks, store, copies, ops, faults>>
    /\ Frame /\ History

\* Step 2: evaluate_batch, then the results are copied into the state
EvaluatedState(s, b) ==
    [s EXCEPT !.processed_pairs = b.total_evaluations,
              !.error_evaluations = b.errors,
              !.passed = b.passed, !.failed = b.failed,
              !.accuracy = b.accuracy, !.batch_id = "batch"]

Evaluate(p) ==
    /\ p \in active
    /\ proc[p].pc = "evaluate"
    /\ \/ Raise(p)
       \/ \E o \in JudgeOutcomes :
          /\ o[1] + o[2] + o[3] = proc[p].st.total_pairs
          /\ LET l == proc[p]
                 d == l.day
                 b == BatchStatistics(o[1], o[2], o[3])
                 s == EvaluatedState(l.st, b)
             IN /\ store' = StoreAfterUpdate(d, s)
                /\ copies' = CopiesAfterUpdate(d)
                /\ proc' = [proc EXCEPT ![p] =
                      [@ EXCEPT !.st = UpdatedState(store[d], s, now), !.batch = b,
                                !.pc = "save"]]
          /\ UNCHANGED <<now, ticks, ops, faults>>
          /\ Frame /\ History

\* Step 3: save_evaluation_results: every pair evaluated now has a stored evaluation.
\* insert_many(ordered=False) is not atomic and replace_one follows it: an error
\* that propagates leaves any number of the evaluations stored
SaveResults(p) ==
    /\ p \in active
    /\ proc[p].pc = "save"
    /\ \/ \E left \in PairCounts :
             /\ left <= pairs[proc[p].day]
             /\ faults < MaxFaults
             /\ faults' = faults + 1
             /\ pairs' = [pairs EXCEPT ![proc[p].day] = left]
             /\ proc' = [proc EXCEPT ![p] = [@ EXCEPT !.raised = TRUE, !.pc = "fail"]]
             /\ UNCHANGED <<now, ticks, store, copies, ops>>
             /\ UNCHANGED <<hasData, active, store0, sched>> /\ History
       \/ /\ pairs' = [pairs EXCEPT ![proc[p].day] = 0]
          /\ saved' = [saved EXCEPT ![proc[p].day] = @ + 1]
          /\ proc' = [proc EXCEPT ![p] = [@ EXCEPT !.pc = "report"]]
          /\ UNCHANGED <<now, ticks, store, copies, ops, faults, execs, retried>>
          /\ UNCHANGED <<hasData, active, store0, sched>>

\* Step 4: generate_excel_report
GenerateReport(p) ==
    /\ p \in active
    /\ proc[p].pc = "report"
    /\ \/ Raise(p)
       \/ /\ LET l == proc[p]
                 d == l.day
                 s == [l.st EXCEPT !.report_generated = TRUE]
             IN /\ store' = StoreAfterUpdate(d, s)
                /\ copies' = CopiesAfterUpdate(d)
                /\ proc' = [proc EXCEPT ![p] =
                      [@ EXCEPT !.st = UpdatedState(store[d], s, now), !.pc = "notify"]]
          /\ UNCHANGED <<now, ticks, ops, faults>>
          /\ Frame /\ History

\* Step 5: _send_accuracy_alert and send_evaluation_report are both inside
\* "if batch.accuracy < settings.ACCURACY_THRESHOLD"
BelowThreshold(b) == b.accuracy < ACCURACY_THRESHOLD

EmailsSent_ReportAlways(b) ==
    IF BelowThreshold(b) THEN <<Alert("accuracy_alert", "high"), Report(TRUE)>>
    ELSE <<Report(FALSE)>>

\* the notifications step 5 requests, in order, when no provider fails
EmailsSent(b) ==
    IF BelowThreshold(b)
    THEN <<Alert("accuracy_alert", "high"), Report(BelowThreshold(b))>>
    ELSE <<>>

SendEmails(p) ==
    /\ p \in active
    /\ proc[p].pc = "notify"
    /\ LET l == proc[p]
           d == l.day
           m == EmailsSent(l.batch)
       IN IF m # <<>>
          THEN \/ \* send_evaluation_report raises: every provider failed
                  RaiseWith(p, [l EXCEPT !.mail = @ \o SubSeq(m, 1, Len(m) - 1)])
               \/ /\ LET s == [l.st EXCEPT !.email_sent = TRUE]
                     IN /\ store' = StoreAfterUpdate(d, s)
                        /\ copies' = CopiesAfterUpdate(d)
                        /\ proc' = [proc EXCEPT ![p] =
                              [l EXCEPT !.st = UpdatedState(store[d], s, now),
                                        !.mail = @ \o m, !.pc = "metadata"]]
                  /\ UNCHANGED <<now, ticks, ops, faults>>
                  /\ Frame /\ History
          ELSE /\ proc' = [proc EXCEPT ![p] = [l EXCEPT !.pc = "metadata"]]
               /\ UNCHANGED <<now, ticks, store, copies, ops, faults>>
               /\ Frame /\ History

\* email_duration is assigned after the report is sent; the timing metadata reads
\* it on every path (UnboundLocalError when it was never assigned)
EmailDurationBound(b) == EmailsSent(b) # <<>>

RecordTimings(p) ==
    /\ p \in active
    /\ proc[p].pc = "metadata"
    /\ LET l == proc[p]
           d == l.day
       IN IF EmailDurationBound(l.batch)
          THEN /\ store' = StoreAfterUpdate(d, l.st)
               /\ copies' = CopiesAfterUpdate(d)
               /\ proc' = [proc EXCEPT ![p] =
                     [l EXCEPT !.st = UpdatedState(store[d], l.st, now), !.pc = "complete"]]
          ELSE /\ proc' = [proc EXCEPT ![p] = [l EXCEPT !.pc = "fail"]]
               /\ UNCHANGED <<store, copies>>
    /\ UNCHANGED <<now, ticks, ops, faults>>
    /\ Frame /\ History

\* the pipeline returned: state.status = COMPLETED, completed_at; return True;
\* finally: update_batch_state(state)
CompletedState_KeepsSkipped(s, t) ==
    IF s.status = "skipped" THEN s
    ELSE [s EXCEPT !.status = "completed", !.completed_at = t]

CompletedState(s, t) == [s EXCEPT !.status = "completed", !.completed_at = t]

MarkCompleted(p) ==
    /\ p \in active
    /\ proc[p].pc = "complete"
    /\ LET l == proc[p]
           d == l.day
           s == CompletedState(l.st, now)
       IN /\ store' = StoreAfterUpdate(d, s)
          /\ copies' = CopiesAfterUpdate(d)
          /\ proc' = [proc EXCEPT ![p] =
                [l EXCEPT !.st = UpdatedState(store[d], s, now), !.result = "true",
                          !.pc = "run_ret"]]
    /\ UNCHANGED <<now, ticks, ops, faults>>
    /\ Frame /\ History

\* min(5 * (2 ** retry_count), 60)
RECURSIVE Pow2(_)
Pow2(n) == IF n <= 0 THEN 1 ELSE 2 * Pow2(n - 1)

Backoff_Uncapped(rc) == BackoffBase * Pow2(rc)

Backoff(rc) == IF BackoffBase * Pow2(rc) < BackoffCap THEN BackoffBase * Pow2(rc)
               ELSE BackoffCap

\* except Exception: set_error; retry_after when can_retry
FailedState_KeepsStatus(s, t) == [s EXCEPT !.failed_at = t]

FailedState(s, t) ==
    LET e == SetError(s, t)
    IN IF CanRetry(e, t) THEN [e EXCEPT !.retry_after = t + Backoff(e.retry_count)] ELSE e

\* ... _send_batch_failure_alert; return False; finally: update_batch_state(state)
HandleFailure(p) ==
    /\ p \in active
    /\ proc[p].pc = "fail"
    /\ LET l == proc[p]
           d == l.day
           s == FailedState(l.st, now)
       IN /\ store' = StoreAfterUpdate(d, s)
          /\ copies' = CopiesAfterUpdate(d)
          /\ proc' = [proc EXCEPT ![p] =
                [l EXCEPT !.st = UpdatedState(store[d], s, now),
                          !.mail = Append(@, Alert("failure_alert", "high")),
                          !.result = "false", !.pc = "run_ret"]]
    /\ UNCHANGED <<now, ticks, ops, faults>>
    /\ Frame /\ History

----------------------------------------------------------------------------
(* RecoveryManager *)

RECURSIVE Insert(_, _)
Insert(x, seq) ==
    IF seq = <<>> THEN <<x>>
    ELSE IF x <= Head(seq) THEN <<x>> \o seq
    ELSE <<Head(seq)>> \o Insert(x, Tail(seq))

RECURSIVE Sorted_Descending(_)
Sorted_Descending(seq) ==
    IF seq = <<>> THEN <<>> ELSE Sorted_Descending(Tail(seq)) \o <<Head(seq)>>

RECURSIVE Sorted(_)
Sorted(seq) == IF seq = <<>> THEN <<>> ELSE Insert(Head(seq), Sorted(Tail(seq)))

StartSweep(p) ==
    /\ p \in active
    /\ proc[p].pc \in {"idle", "run_ret", "pass_ret"}
    /\ proc[p].task \in {"none", "run"} \/ proc[p].pc = "pass_ret"
    /\ ops > 0
    /\ ops' = ops - 1
    /\ proc' = [proc EXCEPT ![p] = [IdleProc EXCEPT !.pc = "find_goc", !.task = "sweep",
                                                    !.day = 1, !.cur = 1]]
    /\ UNCHANGED <<now, ticks, store, copies, faults>>
    /\ Frame /\ History

\* _find_missing_evaluations: does the day scanned need evaluation
NeedsEvaluation_IncludesExhausted(s, t, data) ==
    CASE s.status \in {"completed", "skipped"} -> FALSE
      [] s.status \in {"failed", "partial"} -> TRUE
      [] s.status = "pending" -> data
      [] s.status = "running" -> s.started_at # NoTime /\ t - s.started_at > StuckMinutes
      [] OTHER -> FALSE

NeedsEvaluation(s, t, data) ==
    CASE s.status \in {"completed", "skipped"} -> FALSE
      [] s.status \in {"failed", "partial"} -> CanRetry(s, t)
      [] s.status = "pending" -> data
      [] s.status = "running" -> s.started_at # NoTime /\ t - s.started_at > StuckMinutes
      [] OTHER -> FALSE

FindCheck(p) ==
    /\ p \in active
    /\ proc[p].pc = "find_check"
    /\ LET l == proc[p]
           d == l.cur
           m == IF NeedsEvaluation(l.rs, now, hasData[d]) THEN Append(l.missing, d)
                ELSE l.missing
       IN proc' = [proc EXCEPT ![p] =
             IF d + 1 \in Days
             THEN [l EXCEPT !.missing = m, !.cur = d + 1, !.day = d + 1, !.pc = "find_goc"]
             ELSE [l EXCEPT !.missing = m, !.cur = d + 1, !.pc = "sweep_begin"]]
    /\ UNCHANGED <<now, ticks, store, copies, ops, faults>>
    /\ Frame /\ History

\* recover_all_missed_batches: nothing missing returns 0, else the loop over
\* sorted(missing_dates) starts
SweepBegin(p) ==
    /\ p \in active
    /\ proc[p].pc = "sweep_begin"
    /\ LET l == proc[p]
       IN proc' = [proc EXCEPT ![p] =
             IF l.missing = <<>>
             THEN [l EXCEPT !.count = 0, !.pass = "ended", !.pc = "pass_ret"]
             ELSE [l EXCEPT !.idx = 1, !.day = Sorted(l.missing)[1], !.pc = "rec_goc"]]
    /\ UNCHANGED <<now, ticks, store, copies, ops, faults>>
    /\ Frame /\ History

\* _recover_single_batch, up to the call of run_daily_evaluation
RecoveryState(s) ==
    [s EXCEPT !.is_recovery = TRUE, !.recovery_attempted = TRUE,
              !.recovery_count = @ + 1, !.meta_is_recovery = TRUE,
              !.meta_recovery_trigger = "RecoveryManager"]

RecoverCheck(p) ==
    /\ p \in active
    /\ proc[p].pc = "rec_check"
    /\ LET l == proc[p]
           d == l.day
       IN CASE l.rs.status = "completed" ->
                 /\ proc' = [proc EXCEPT ![p] = [l EXCEPT !.result = "none",
                                                          !.success = "true", !.pc = "rec_ret"]]
                 /\ UNCHANGED <<store, copies>>
            [] l.rs.status # "completed" /\ ~CanRetry(l.rs, now) ->
                 /\ proc' = [proc EXCEPT ![p] =
                       [l EXCEPT !.mail = Append(@, Alert("max_retry", "critical")),
                                 !.result = "none", !.success = "false", !.pc = "rec_ret"]]
                 /\ UNCHANGED <<store, copies>>
            [] OTHER ->
                 /\ store' = StoreAfterUpdate(d, RecoveryState(l.rs))
                 /\ copies' = CopiesAfterUpdate(d)
                 /\ proc' = [proc EXCEPT ![p] =
                       [l EXCEPT !.rs = UpdatedState(store[d], RecoveryState(l.rs), now),
                                 !.st = NoState, !.sp = NoState, !.read = NoState,
                                 !.gate = "none", !.decided = NoTime, !.raised = FALSE,
                                 !.prior = "none", !.batch = NoBatch,
                                 !.passed = Append(@, d),
                                 !.result = "none", !.mail = <<>>, !.pc = "run_goc"]]
    /\ UNCHANGED <<now, ticks, ops, faults>>
    /\ Frame /\ History

\* _send_recovery_success_notification formats state.accuracy with ":.2%", which
\* raises TypeError on None; the except clause of _recover_single_batch returns False
RecoverySucceeded_RunResult(result, s) == result = "true"

RecoverySucceeded(result, s) == result = "true" /\ s.accuracy # NoAcc

\* _recover_single_batch, after run_daily_evaluation returned
RecoverAfter(p) ==
    /\ p \in active
    /\ proc[p].pc = "run_ret"
    /\ proc[p].task \in {"sweep", "quick"}
    /\ LET l == proc[p]
           ok == RecoverySucceeded(l.result, l.rs)
       IN proc' = [proc EXCEPT ![p] =
             [l EXCEPT !.mail = IF ok THEN Append(@, Alert("recovery_success", "low")) ELSE @,
                       !.success = IF ok THEN "true" ELSE "false",
                       !.pc = "rec_ret"]]
    /\ UNCHANGED <<now, ticks, store, copies, ops, faults>>
    /\ Frame /\ History

\* recover_all_missed_batches: count the outcome, go on with the next date or
\* send the summary and return recovered_count
SweepLoop(p) ==
    /\ p \in active
    /\ proc[p].pc = "rec_ret"
    /\ proc[p].task = "sweep"
    /\ LET l == proc[p]
           r == IF l.success = "true" THEN l.recovered + 1 ELSE l.recovered
           f == IF l.success = "true" THEN l.failedc ELSE l.failedc + 1
       IN proc' = [proc EXCEPT ![p] =
             IF l.idx < Len(l.missing)
             THEN [l EXCEPT !.recovered = r, !.failedc = f, !.idx = @ + 1,
                            !.day = Sorted(l.missing)[l.idx + 1], !.pc = "rec_goc"]
             ELSE [l EXCEPT !.recovered = r, !.failedc = f, !.count = r,
                            !.mail = IF r > 0 \/ f > 0
                                     THEN Append(@, Alert("recovery_summary", "normal"))
                                     ELSE @,
                            !.pass = "ended", !.pc = "pass_ret"]]
    /\ UNCHANGED <<now, ticks, store, copies, ops, faults>>
    /\ Frame /\ History

----------------------------------------------------------------------------
(* The scheduler process: one operation at a time *)

InitNow == StuckMinutes + 2 * BackoffBase

Seed(status, rc, ra, sa) ==
    [NewBatchState(0) EXCEPT
        !.status = status, !.retry_count = rc, !.retry_after = ra, !.started_at = sa,
        !.previous_status = IF status = "pending" THEN "none" ELSE "running",
        !.completed_at = IF status \in {"completed", "skipped"} THEN BackoffBase ELSE NoTime,
        !.failed_at = IF status = "failed" THEN BackoffBase ELSE NoTime,
        !.error_message = IF status = "failed" THEN "exception" ELSE "none",
        !.error_type = IF status = "failed" THEN "exception" ELSE "none"]

Stuck0 == InitNow - StuckMinutes - BackoffBase      \* started 125 minutes before InitNow
Edge0 == InitNow - StuckMinutes                     \* started exactly 120 minutes before
Later == InitNow + BackoffBase

InitData ==
    /\ hasData \in [Days -> BOOLEAN]
    /\ pairs \in [Days -> PairCounts]
    /\ \A d \in Days : pairs[d] > 0 => hasData[d]

InitBase ==
    /\ now = InitNow /\ ticks = 0
    /\ copies = [d \in Days |-> IF store[d] = NoDoc THEN 0 ELSE 1]
    /\ proc = [p \in Procs |-> IdleProc]
    /\ active = {1}
    /\ faults = 0
    /\ execs = Zero /\ retried = Zero /\ saved = Zero
    /\ store0 = store

InitRest == InitBase /\ sched = SchedOff

Scenarios ==
    { [d \in Days |-> IF d = 1 THEN Seed("completed", 0, NoTime, 0)
                      ELSE IF d = 2 THEN Seed("failed", DefaultMaxRetries, NoTime, 0)
                      ELSE NoDoc],
      [d \in Days |-> IF d = 1 THEN Seed("failed", DefaultMaxRetries - 1, NoTime, 0)
                      ELSE IF d = 2 THEN Seed("running", 0, NoTime, Edge0)
                      ELSE NoDoc] }

Init ==
    /\ store \in Scenarios
    /\ InitData
    /\ \A d, e \in Days : hasData[d] = hasData[e] /\ pairs[d] = pairs[e]
    /\ ops = MaxOps
    /\ InitRest

Next ==
    \/ \E dt \in TickSteps : Tick(dt)
    \/ \E p \in Procs : GocFind(p)
    \/ \E p \in Procs : GocInsert(p)
    \/ \E p \in Procs, d \in Days : StartRun(p, d)
    \/ \E p \in Procs : ShouldProcess(p)
    \/ \E p \in Procs : MarkRunning(p)
    \/ \E p \in Procs : FetchPairs(p)
    \/ \E p \in Procs : NotifyEmpty(p)
    \/ \E p \in Procs : Evaluate(p)
    \/ \E p \in Procs : SaveResults(p)
    \/ \E p \in Procs : GenerateReport(p)
    \/ \E p \in Procs : SendEmails(p)
    \/ \E p \in Procs : RecordTimings(p)
    \/ \E p \in Procs : MarkCompleted(p)
    \/ \E p \in Procs : HandleFailure(p)
    \/ \E p \in Procs : StartSweep(p)
    \/ \E p \in Procs : FindCheck(p)
    \/ \E p \in Procs : SweepBegin(p)
    \/ \E p \in Procs : RecoverCheck(p)
    \/ \E p \in Procs : RecoverAfter(p)
    \/ \E p \in Procs : SweepLoop(p)

Spec == Init /\ [][Next]_vars

----------------------------------------------------------------------------
(* A day's operations applied to every kind of stored record *)

GateOps == 1

WideSeeds ==
    { Seed(s, rc, ra, sa) : s \in {"completed", "running", "failed", "pending"},
                            rc \in {0, DefaultMaxRetries},
                            ra \in {NoTime, Later},
                            sa \in {NoTime, Stuck0, Edge0} }

InitGate ==
    /\ \E r \in WideSeeds \cup {NoDoc} : store = [d \in Days |-> IF d = 1 THEN r ELSE NoDoc]
    /\ InitData
    /\ \A d \in Days : d > 1 => ~hasData[d]
    /\ ops = GateOps
    /\ InitRest

SpecGate == InitGate /\ [][Next]_vars

----------------------------------------------------------------------------
(* Properties *)

Ran(p) == proc[p].pc = "run_ret" /\ proc[p].gate = "true"

Count(seq, kind) == Cardinality({i \in DOMAIN seq : seq[i].kind = kind})

CountPriority(seq, prio) == Cardinality({i \in DOMAIN seq : seq[i].priority = prio})

\* C2: should_process_batch answers false for every COMPLETED record, whatever
\* its retry fields, its start time and the data probe say, and leaves the
\* stored record as it was.
C2_CompletedNotProcessed ==
    \A p \in Procs :
        (proc[p].gate # "none" /\ proc[p].read.status = "completed") =>
            /\ proc[p].gate = "false"
            /\ proc[p].pc = "run_ret" => store[proc[p].day] = proc[p].read

\* a COMPLETED record with retries left, no retry delay and data present was refused
C2_Witness ==
    \E p \in Procs :
        /\ proc[p].gate = "false"
        /\ proc[p].read.status = "completed"
        /\ proc[p].read.retry_count = 0
        /\ proc[p].read.retry_after = NoTime
        /\ hasData[proc[p].day]

\* C3: a RUNNING record started more than 2 hours before the decision is stored
\* as FAILED with the stuck message and should_process_batch answers true,
\* whatever CanRetry, the retry delay and the data probe would have said.
C3_StuckReclassified ==
    \A p \in Procs :
        ( /\ proc[p].gate # "none"
          /\ proc[p].read.status = "running"
          /\ proc[p].read.started_at # NoTime
          /\ proc[p].decided - proc[p].read.started_at > StuckMinutes ) =>
            /\ proc[p].gate = "true"
            /\ proc[p].pc = "run_mark" =>
                 /\ store[proc[p].day] = proc[p].sp
                 /\ store[proc[p].day].status = "failed"
                 /\ store[proc[p].day].error_message = "stuck"
                 /\ store[proc[p].day].previous_status = "running"

\* a stuck record with retries exhausted, a retry delay pending and no data
\* was reclassified and let through
C3_Witness ==
    \E p \in Procs :
        /\ proc[p].pc = "run_mark"
        /\ proc[p].gate = "true"
        /\ proc[p].read.status = "running"
        /\ proc[p].read.retry_count >= proc[p].read.max_retries
        /\ proc[p].read.retry_after > now
        /\ ~hasData[proc[p].day]
        /\ store[proc[p].day].status = "failed"

RetryBase(d) == IF store0[d] = NoDoc THEN 0 ELSE store0[d].retry_count

MaxRetriesOf(d) == IF store[d] = NoDoc THEN DefaultMaxRetries ELSE store[d].max_retries

\* C4: retries are used up: counting the retries the record had already
\* consumed, a day's pipeline is started from a FAILED record at most
\* max_retries times, after which the day is never executed again.
C4_RetriesExhaust ==
    \A d \in Days : RetryBase(d) + retried[d] <= MaxRetriesOf(d)

\* C5: when the RUNNING state has just been persisted, retry_count is one more
\* than the stored value if the stored status was FAILED, and unchanged if not.
C5_RetryCounted ==
    \A p \in Procs :
        proc[p].pc = "fetch" =>
            /\ proc[p].st.retry_count =
                  proc[p].read.retry_count + (IF proc[p].prior = "failed" THEN 1 ELSE 0)
            /\ store[proc[p].day].retry_count = proc[p].st.retry_count

\* C6: a run that passed the gate, found pairs and had no collaborator raise
\* returns true and leaves the record COMPLETED with completed_at set, for
\* every accuracy.
C6_SuccessCompletes ==
    \A p \in Procs :
        (Ran(p) /\ ~proc[p].raised /\ proc[p].batch # NoBatch
                /\ proc[p].batch.total_evaluations > 0) =>
            /\ proc[p].result = "true"
            /\ store[proc[p].day].status = "completed"
            /\ store[proc[p].day].completed_at # NoTime

\* C7: a run whose fetch returned no pairs leaves the record SKIPPED, saves
\* nothing, and requests exactly one low-priority notification and no alert.
C7_EmptyDaySkipped ==
    \A p \in Procs :
        (Ran(p) /\ proc[p].batch # NoBatch /\ proc[p].batch.total_evaluations = 0) =>
            /\ store[proc[p].day].status = "skipped"
            /\ saved[proc[p].day] = 0
            /\ CountPriority(proc[p].mail, "low") = 1
            /\ CountPriority(proc[p].mail, "high") = 0

\* C8: a run that evaluated a non-empty batch and had no collaborator raise has
\* sent the report exactly once, tagged as alert exactly when accuracy is below
\* the threshold, after the accuracy alert when there is one, and has stored
\* email_sent.
C8_ReportAlwaysSent ==
    \A p \in Procs :
        (Ran(p) /\ ~proc[p].raised /\ proc[p].batch # NoBatch
                /\ proc[p].batch.total_evaluations > 0) =>
            LET m == proc[p].mail
                below == proc[p].batch.accuracy < ACCURACY_THRESHOLD
            IN /\ Count(m, "report") = 1
               /\ \A i \in DOMAIN m : m[i].kind = "report" => m[i].alert = below
               /\ Count(m, "accuracy_alert") = (IF below THEN 1 ELSE 0)
               /\ \A i, j \in DOMAIN m :
                     (m[i].kind = "accuracy_alert" /\ m[j].kind = "report") => i < j
               /\ store[proc[p].day].email_sent

\* C9: the first sweep over a window of a COMPLETED day, an exhausted FAILED
\* day and an untouched day with data and pairs to evaluate, with no
\* collaborator raising, executes the pipeline for the third day only, returns
\* 1 and leaves the first two records as they were.
C9Window ==
    /\ store0[1] # NoDoc /\ store0[1].status = "completed"
    /\ store0[2] # NoDoc /\ store0[2].status = "failed"
    /\ store0[2].retry_count >= store0[2].max_retries
    /\ store0[3] = NoDoc /\ hasData[3]
    /\ \A d \in Days : d > 3 => store0[d] = NoDoc /\ ~hasData[d]

C9_SweepRecoversThird ==
    \A p \in Procs :
        ( /\ C9Window
          /\ proc[p].task = "sweep" /\ proc[p].pc = "pass_ret"
          /\ ops = MaxOps - 1 /\ faults = 0
          /\ proc[p].batch # NoBatch /\ proc[p].batch.total_evaluations > 0 ) =>
            /\ execs = [d \in Days |-> IF d = 3 THEN 1 ELSE 0]
            /\ proc[p].count = 1
            /\ store[1] = store0[1] /\ store[2] = store0[2]

\* C10: a run in which a collaborator raised has returned false, the stored
\* record is the FAILED state with its error fields, and one failure alert was
\* requested.
C10_FailureHandled ==
    \A p \in Procs :
        (proc[p].pc = "run_ret" /\ proc[p].raised) =>
            /\ proc[p].result = "false"
            /\ store[proc[p].day] = proc[p].st
            /\ store[proc[p].day].status = "failed"
            /\ store[proc[p].day].error_message = "exception"
            /\ store[proc[p].day].error_type = "exception"
            /\ store[proc[p].day].failed_at # NoTime
            /\ Count(proc[p].mail, "failure_alert") = 1

\* the report could not be sent after the accuracy alert went out
C10_Witness ==
    \E p \in Procs :
        /\ proc[p].pc = "run_ret" /\ proc[p].raised
        /\ proc[p].st.report_generated
        /\ Count(proc[p].mail, "accuracy_alert") = 1
        /\ proc[p].result = "false"

----------------------------------------------------------------------------
(* BatchState methods on every combination of field values *)

MaxRetryCount == 4

StateTimes == {NoTime, InitNow - BackoffBase, InitNow, InitNow + BackoffBase}

StateInputs ==
    { [NewBatchState(0) EXCEPT !.status = s, !.retry_count = rc,
                               !.max_retries = mr, !.retry_after = ra] :
        s \in BatchStatus, rc \in 0..MaxRetryCount,
        mr \in {0, DefaultMaxRetries, MaxRetryCount + 1}, ra \in StateTimes }

InitState ==
    /\ \E r \in StateInputs : store = [d \in Days |-> IF d = 1 THEN r ELSE NoDoc]
    /\ hasData = [d \in Days |-> FALSE]
    /\ pairs = Zero
    /\ ops = 0
    /\ InitRest

\* state.can_retry() on the stored record
ApplyCanRetry(p) ==
    /\ p \in active
    /\ proc[p].pc = "idle"
    /\ proc' = [proc EXCEPT ![p] =
          [@ EXCEPT !.day = 1, !.read = store[1],
                    !.result = IF CanRetry(store[1], now) THEN "true" ELSE "false",
                    !.pc = "fn_can_retry"]]
    /\ UNCHANGED <<now, ticks, store, copies, ops, faults>>
    /\ Frame /\ History

\* the except block of run_daily_evaluation on the record as it stands
ApplyFailure(p) ==
    /\ p \in active
    /\ proc[p].pc = "idle"
    /\ proc' = [proc EXCEPT ![p] =
          [@ EXCEPT !.day = 1, !.read = store[1],
                    !.st = FailedState(store[1], now),
                    !.result = "false", !.pc = "fn_failed"]]
    /\ UNCHANGED <<now, ticks, store, copies, ops, faults>>
    /\ Frame /\ History

NextState ==
    \/ \E p \in Procs : ApplyCanRetry(p)
    \/ \E p \in Procs : ApplyFailure(p)

SpecState == InitState /\ [][NextState]_vars

\* C11: after a failure, when the FAILED record can be retried retry_after is
\* the failure time plus 5, 10, 20, 40 minutes for retry_count 0, 1, 2, 3 and
\* 60 minutes from 4 on; when it cannot be retried retry_after is unchanged.
C11_BackoffSchedule ==
    \A p \in Procs :
        proc[p].pc = "fn_failed" =>
            LET in == proc[p].read
                out == proc[p].st
                rc == in.retry_count
                retryable == /\ rc < in.max_retries
                             /\ (in.retry_after = NoTime \/ now >= in.retry_after)
                delay == CASE rc = 0 -> 5 [] rc = 1 -> 10 [] rc = 2 -> 20
                           [] rc = 3 -> 40 [] OTHER -> 60
            IN /\ out.status = "failed"
               /\ out.retry_count = rc
               /\ retryable => out.retry_after = now + delay
               /\ ~retryable => out.retry_after = in.retry_after

\* the cap applied: a fifth retry waits 60 minutes, not 80
C11_Witness ==
    \E p \in Procs :
        /\ proc[p].pc = "fn_failed"
        /\ proc[p].read.retry_count = 4
        /\ proc[p].st.retry_after = now + BackoffCap

\* C12: can_retry() is true exactly when the status is FAILED, PARTIAL or
\* PENDING, retry_count is below max_retries, and retry_after is unset or not
\* after now.
C12_CanRetryExactly ==
    \A p \in Procs :
        proc[p].pc = "fn_can_retry" =>
            LET in == proc[p].read
            IN (proc[p].result = "true") <=>
                  /\ in.status \in {"failed", "partial", "pending"}
                  /\ in.retry_count < in.max_retries
                  /\ (in.retry_after = NoTime \/ now >= in.retry_after)

\* a record whose retry_after is exactly now can be retried
C12_Witness ==
    \E p \in Procs :
        /\ proc[p].pc = "fn_can_retry"
        /\ proc[p].result = "true"
        /\ proc[p].read.status = "partial"
        /\ proc[p].read.retry_after = now

\* C13: can_retry() is false whenever retry_count >= max_retries, for every
\* status and every retry_after, max_retries = 0 included.
C13_ExhaustedNeverRetries ==
    \A p \in Procs :
        (proc[p].pc = "fn_can_retry" /\ proc[p].read.retry_count >= proc[p].read.max_retries)
            => proc[p].result = "false"

\* a fresh PENDING record with max_retries = 0 was refused
C13_Witness ==
    \E p \in Procs :
        /\ proc[p].pc = "fn_can_retry"
        /\ proc[p].read.status = "pending"
        /\ proc[p].read.max_retries = 0
        /\ proc[p].read.retry_count = 0
        /\ proc[p].read.retry_after = NoTime
        /\ proc[p].result = "false"

\* C14: the accuracy stored on the BatchState after evaluation is
\* passed / (passed + failed) rounded to 4 decimals, ERROR results left out of
\* the denominator, and 0 when nothing was evaluable.
C14_AccuracyExcludesErrors ==
    \A p \in Procs :
        (proc[p].pc = "save" /\ proc[p].batch # NoBatch) =>
            LET b == proc[p].batch
                evaluable == b.passed + b.failed
            IN store[proc[p].day].accuracy =
                  (IF evaluable > 0 THEN Round4(b.passed, evaluable) ELSE 0)

PipelinePcs == {"fetch", "empty_notify", "evaluate", "save", "report", "notify",
                "metadata", "complete", "fail"}

InRun == {"run_mark", "run_ret"} \cup PipelinePcs

WasStuck(p) ==
    /\ proc[p].read.status = "running"
    /\ proc[p].read.started_at # NoTime
    /\ proc[p].decided - proc[p].read.started_at > StuckMinutes

\* C15 as stated: should_process_batch never answers true, and the run never
\* goes on to RUNNING, for a day whose data probe is false.
C15_NoDataNeverProcessed ==
    \A p \in Procs :
        /\ (proc[p].pc \in InRun /\ proc[p].gate = "true") => hasData[proc[p].day]
        /\ proc[p].pc \in PipelinePcs => hasData[proc[p].day]

\* C15, amended: for a day whose data probe is false should_process_batch
\* answers true, and the run goes on to RUNNING, only when the stored record was
\* a stuck RUNNING one; the run never goes on without a true answer.
C15_NoDataOnlyWhenStuck ==
    \A p \in Procs :
        /\ (proc[p].pc \in InRun /\ proc[p].gate = "true" /\ ~hasData[proc[p].day])
              => WasStuck(p)
        /\ proc[p].pc \in ({"run_mark"} \cup PipelinePcs) => proc[p].gate = "true"

\* a FAILED record that could be retried was refused for lack of data
C15_Witness ==
    \E p \in Procs :
        /\ proc[p].pc = "run_ret" /\ proc[p].gate = "false"
        /\ proc[p].read.status = "failed"
        /\ CanRetry(proc[p].read, proc[p].decided)
        /\ ~hasData[proc[p].day]
        /\ store[proc[p].day] = proc[p].read

----------------------------------------------------------------------------
(* Two processes running run_daily_evaluation for the same day *)

RaceDay == CHOOSE d \in Days : \A e \in Days : d <= e

InitRace ==
    /\ \E r \in {NoDoc, NewBatchState(0)} :
          store = [d \in Days |-> IF d = RaceDay THEN r ELSE NoDoc]
    /\ hasData = [d \in Days |-> TRUE]
    /\ \E n \in PairCounts : pairs = [d \in Days |-> n]
    /\ ops = NumProcs
    /\ now = InitNow /\ ticks = 0
    /\ copies = [d \in Days |-> IF store[d] = NoDoc THEN 0 ELSE 1]
    /\ proc = [p \in Procs |-> IdleProc]
    /\ active = Procs
    /\ faults = 0
    /\ execs = Zero /\ retried = Zero /\ saved = Zero
    /\ store0 = store
    /\ sched = SchedOff

NextRace ==
    \/ \E p \in Procs : StartRun(p, RaceDay)
    \/ \E p \in Procs : GocFind(p)
    \/ \E p \in Procs : GocInsert(p)
    \/ \E p \in Procs : ShouldProcess(p)
    \/ \E p \in Procs : MarkRunning(p)
    \/ \E p \in Procs : FetchPairs(p)
    \/ \E p \in Procs : NotifyEmpty(p)
    \/ \E p \in Procs : Evaluate(p)
    \/ \E p \in Procs : SaveResults(p)
    \/ \E p \in Procs : GenerateReport(p)
    \/ \E p \in Procs : SendEmails(p)
    \/ \E p \in Procs : RecordTimings(p)
    \/ \E p \in Procs : MarkCompleted(p)
    \/ \E p \in Procs : HandleFailure(p)

SpecRace == InitRace /\ [][NextRace]_vars

\* C16: of two invocations for the same day, no two are past the gate with the
\* pipeline in flight at the same time.
C16_OneRunnerPerDay ==
    \A p, q \in Procs :
        ( /\ p # q
          /\ proc[p].day = proc[q].day
          /\ proc[p].gate = "true" /\ proc[q].gate = "true" ) =>
            ~(proc[p].pc \in PipelinePcs /\ proc[q].pc \in PipelinePcs)

----------------------------------------------------------------------------
(* AutonomousScheduler *)

MaxDay == 2
MaxLoops == 2
MaxSchedFaults == 1

\* the weekday() of day 0: a Saturday, so that day 1 is a Sunday
FirstWeekday == 5

\* a datetime: the fields replace() and the comparison work on
ClockTimes == [day : 0..MaxDay, hour : {0, 23}, minute : {0, 1, 59},
               second : {0, 30}, micro : {0, 1}]

\* settings.RUN_TIME, "HH:MM"
RunTimes == { [hour |-> 0, minute |-> 1], [hour |-> 0, minute |-> 0],
              [hour |-> 23, minute |-> 59] }

Before(a, b) ==
    \/ a.day < b.day
    \/ a.day = b.day /\ a.hour < b.hour
    \/ a.day = b.day /\ a.hour = b.hour /\ a.minute < b.minute
    \/ a.day = b.day /\ a.hour = b.hour /\ a.minute = b.minute /\ a.second < b.second
    \/ a.day = b.day /\ a.hour = b.hour /\ a.minute = b.minute /\ a.second = b.second
          /\ a.micro < b.micro

\* current_time.replace(hour=, minute=, second=0, microsecond=0)
AtRunTime(ct, rt) ==
    [ct EXCEPT !.hour = rt.hour, !.minute = rt.minute, !.second = 0, !.micro = 0]

CalculateNextRun_Strict(ct, rt) ==
    IF Before(AtRunTime(ct, rt), ct) THEN [AtRunTime(ct, rt) EXCEPT !.day = @ + 1]
    ELSE AtRunTime(ct, rt)

\* _calculate_next_run: if current_time >= next_run: next_run += timedelta(days=1)
CalculateNextRun(ct, rt) ==
    IF ~Before(ct, AtRunTime(ct, rt)) THEN [AtRunTime(ct, rt) EXCEPT !.day = @ + 1]
    ELSE AtRunTime(ct, rt)

\* t + timedelta(minutes=1)
AddMinute(t) ==
    IF t.minute < 59 THEN [t EXCEPT !.minute = @ + 1]
    ELSE IF t.hour < 23 THEN [t EXCEPT !.hour = @ + 1, !.minute = 0]
    ELSE [t EXCEPT !.day = @ + 1, !.hour = 0, !.minute = 0]

RECURSIVE AddMinutes(_, _)
AddMinutes(t, n) == IF n = 0 THEN t ELSE AddMinutes(AddMinute(t), n - 1)

Weekday_EveryDay(t) == 6

Weekday(t) == (t.day + FirstWeekday) % 7

\* settings.TIMEZONE is a pytz zone ("America/Chicago"): its UTC offset changes at
\* 02:00 local time on a transition day
TransitionTime(day) == [day |-> day, hour |-> 2, minute |-> 0, second |-> 0, micro |-> 0]

SpansTransition(ct, nr) ==
    \E d \in {ct.day, nr.day} : Before(ct, TransitionTime(d)) /\ Before(TransitionTime(d), nr)

SubHour(t) ==
    IF t.hour > 0 THEN [t EXCEPT !.hour = @ - 1] ELSE [t EXCEPT !.day = @ - 1, !.hour = 23]

AddHour(t) ==
    IF t.hour < 23 THEN [t EXCEPT !.hour = @ + 1] ELSE [t EXCEPT !.day = @ + 1, !.hour = 0]

\* datetime.now(self.timezone) after wait_seconds of real time: next_run keeps the
\* tzinfo (UTC offset) of the time it was computed from, so wait_seconds is the
\* difference of the wall-clock fields, and the wall clock read at the wake is an
\* hour behind next_run when the offset went back during the wait, an hour ahead
\* when it went forward
WallClockAt(next_run, change) ==
    CASE change = "back" -> SubHour(next_run)
      [] change = "forward" -> AddHour(next_run)
      [] OTHER -> next_run

\* the offset changes the zone can make while the scheduler waits
OffsetChanges(s) ==
    IF ~s.dst /\ SpansTransition(s.clock, s.next_run) THEN {"none", "back", "forward"}
    ELSE {"none"}

WaitOutcome_TimeoutOnly(shutdown) == "timeout"

\* asyncio.wait_for(self.shutdown_event.wait(), timeout=wait_seconds)
WaitOutcome(shutdown) == IF shutdown THEN "shutdown" ELSE "timeout"

InitSched ==
    /\ store = [d \in Days |-> NoDoc]
    /\ hasData = [d \in Days |-> FALSE]
    /\ pairs = Zero
    /\ ops = 0
    /\ InitBase
    /\ \E rt \in RunTimes, t \in ClockTimes :
          sched = [ pc |-> "startup", shutdown |-> FALSE, run_time |-> rt,
                    clock |-> t, next_run |-> t, loop_count |-> 0, wake |-> "none",
                    runs |-> 0, calls |-> <<>>, alerts |-> <<>>, excs |-> 0,
                    evaluation_date |-> 0 - 1, success |-> "none",
                    startup_sweeps |-> 0, dst |-> FALSE,
                    cleaned |-> FALSE, crashed |-> FALSE ]

SchedFrame ==
    UNCHANGED <<now, ticks, store, copies, hasData, pairs, proc, active, ops, faults,
                execs, retried, store0, saved>>

\* _signal_handler: self.shutdown_event.set()
SchedSignal ==
    /\ sched.pc \notin {"off", "stopped"}
    /\ ~sched.shutdown
    /\ sched' = [sched EXCEPT !.shutdown = TRUE]
    /\ SchedFrame

AfterInitialize_NoSweep == "loop_test"

\* what follows pipeline.initialize() and the initial health check
AfterInitialize == "startup_sweep"

\* pipeline.initialize(), recovery_manager.initialize(), the initial health check
SchedStartup ==
    /\ sched.pc = "startup"
    /\ \/ sched' = [sched EXCEPT !.calls = <<"initialize">>, !.pc = AfterInitialize]
       \/ /\ sched.excs < MaxSchedFaults
          /\ sched' = [sched EXCEPT !.pc = "critical"]
    /\ SchedFrame

\* recovered = await self.recovery_manager.recover_all_missed_batches()
SchedStartupSweep ==
    /\ sched.pc = "startup_sweep"
    /\ sched' = [sched EXCEPT !.calls = Append(@, "recover_all_missed_batches"),
                              !.startup_sweeps = @ + 1, !.pc = "loop_test"]
    /\ SchedFrame

\* the outer except: _send_critical_scheduler_alert; raise
SchedCritical ==
    /\ sched.pc = "critical"
    /\ sched' = [sched EXCEPT !.alerts = Append(@, "critical"), !.crashed = TRUE,
                              !.pc = "finally"]
    /\ SchedFrame

\* while not self.shutdown_event.is_set(): loop_count += 1; next_run = ...
SchedLoopTest ==
    /\ sched.pc = "loop_test"
    /\ IF sched.shutdown
       THEN sched' = [sched EXCEPT !.pc = "finally"]
       ELSE /\ sched.loop_count < MaxLoops
            /\ \/ sched' = [sched EXCEPT !.loop_count = @ + 1, !.calls = <<>>,
                               !.next_run = CalculateNextRun(sched.clock, sched.run_time),
                               !.wake = "none", !.success = "none", !.pc = "wait"]
               \/ /\ sched.excs < MaxSchedFaults
                  /\ sched' = [sched EXCEPT !.loop_count = @ + 1, !.calls = <<>>,
                                            !.excs = @ + 1, !.pc = "iter_except"]
    /\ SchedFrame

\* the wait ends: by the shutdown event (break) or by the timeout
SchedWait ==
    /\ sched.pc = "wait"
    /\ IF WaitOutcome(sched.shutdown) = "shutdown"
       THEN sched' = [sched EXCEPT !.wake = "shutdown", !.pc = "finally"]
       ELSE /\ sched.next_run.day <= MaxDay
            /\ \E sec \in {0, 30}, us \in {0, 1}, z \in OffsetChanges(sched) :
                 sched' = [sched EXCEPT
                             !.clock = [WallClockAt(sched.next_run, z) EXCEPT
                                           !.second = sec, !.micro = us],
                             !.dst = @ \/ z # "none",
                             !.wake = "timeout", !.pc = "execute"]
    /\ SchedFrame

\* _execute_daily_evaluation: health check, run_daily_evaluation(yesterday)
SchedRunDay ==
    /\ sched.pc = "execute"
    /\ \/ \E ok \in {"true", "false"} :
             sched' = [sched EXCEPT !.calls = Append(@, "run_daily_evaluation"),
                                    !.evaluation_date = sched.clock.day - 1,
                                    !.success = ok,
                                    !.runs = @ + 1, !.pc = "quick"]
       \/ /\ sched.excs < MaxSchedFaults
          /\ sched' = [sched EXCEPT !.calls = Append(@, "run_daily_evaluation"),
                                    !.evaluation_date = sched.clock.day - 1,
                                    !.runs = @ + 1, !.excs = @ + 1, !.pc = "exec_except"]
    /\ SchedFrame

\* check_and_recover_missed_batches
SchedQuickCheck ==
    /\ sched.pc = "quick"
    /\ \/ sched' = [sched EXCEPT !.calls = Append(@, "check_and_recover_missed_batches"),
                                 !.pc = "retention"]
       \/ /\ sched.excs < MaxSchedFaults
          /\ sched' = [sched EXCEPT !.calls = Append(@, "check_and_recover_missed_batches"),
                                    !.excs = @ + 1, !.pc = "exec_except"]
    /\ SchedFrame

\* if execution_start.weekday() == 6: cleanup_old_states()
SchedRetention ==
    /\ sched.pc = "retention"
    /\ IF Weekday(sched.clock) = 6
       THEN \/ sched' = [sched EXCEPT !.calls = Append(@, "cleanup_old_states"),
                                      !.pc = "delay"]
            \/ /\ sched.excs < MaxSchedFaults
               /\ sched' = [sched EXCEPT !.calls = Append(@, "cleanup_old_states"),
                                         !.excs = @ + 1, !.pc = "exec_except"]
       ELSE sched' = [sched EXCEPT !.pc = "delay"]
    /\ SchedFrame

\* except Exception in _execute_daily_evaluation: _send_evaluation_error_alert
\* builds a subject and a body and returns
SchedExecExcept ==
    /\ sched.pc = "exec_except"
    /\ sched' = [sched EXCEPT !.pc = "delay"]
    /\ SchedFrame

\* await asyncio.sleep(60)
SchedDelay ==
    /\ sched.pc = "delay"
    /\ sched' = [sched EXCEPT !.clock = AddMinute(@), !.pc = "loop_test"]
    /\ SchedFrame

\* except Exception in the loop: _send_scheduler_error_alert; asyncio.sleep(300)
SchedIterExcept ==
    /\ sched.pc = "iter_except"
    /\ sched' = [sched EXCEPT !.alerts = Append(@, "scheduler_error"),
                              !.clock = AddMinutes(@, 5), !.pc = "loop_test"]
    /\ SchedFrame

\* finally: self.is_running = False; await self.pipeline.cleanup()
SchedFinally ==
    /\ sched.pc = "finally"
    /\ sched' = [sched EXCEPT !.cleaned = TRUE, !.pc = "stopped"]
    /\ SchedFrame

SchedStep ==
    \/ SchedStartup
    \/ SchedStartupSweep
    \/ SchedCritical
    \/ SchedLoopTest
    \/ SchedWait
    \/ SchedRunDay
    \/ SchedQuickCheck
    \/ SchedRetention
    \/ SchedExecExcept
    \/ SchedDelay
    \/ SchedIterExcept
    \/ SchedFinally

NextSched == SchedSignal \/ SchedStep

SpecSched == InitSched /\ [][NextSched]_vars

\* the event loop runs the scheduler coroutine whenever it can take a step
SpecSchedLive == InitSched /\ [][NextSched]_vars /\ WF_vars(SchedStep)

FireTime(day, rt) ==
    [day |-> day, hour |-> rt.hour, minute |-> rt.minute, second |-> 0, micro |-> 0]

\* C17: the next run computed from the current time is today's fire time, with
\* seconds and microseconds zero, when the current time is strictly before it,
\* and tomorrow's fire time when the current time is at or after it.
C17_NextRun ==
    sched.pc = "wait" =>
        LET today == FireTime(sched.clock.day, sched.run_time)
            tomorrow == FireTime(sched.clock.day + 1, sched.run_time)
        IN /\ Before(sched.clock, today) => sched.next_run = today
           /\ ~Before(sched.clock, today) => sched.next_run = tomorrow

\* fire time 00:01 and current time 00:01:30 give tomorrow 00:01:00
C17_Witness ==
    /\ sched.pc = "wait"
    /\ sched.run_time = [hour |-> 0, minute |-> 1]
    /\ sched.clock.hour = 0 /\ sched.clock.minute = 1 /\ sched.clock.second = 30
    /\ sched.next_run = FireTime(sched.clock.day + 1, sched.run_time)

\* C18: every exception raised inside a loop iteration has been answered by an
\* alert by the time the loop is back at its test, and the loop is still
\* running.
C18_IterationErrorAlerted ==
    (sched.pc = "loop_test" /\ ~sched.crashed) => Len(sched.alerts) >= sched.excs

\* C19: once the shutdown event is set while the scheduler waits for the next
\* run, the wait ends without run_daily_evaluation being started, the loop is
\* left, and pipeline.cleanup() is eventually executed.
C19_ShutdownWhileWaiting ==
    /\ [][ (sched.pc = "wait" /\ sched.shutdown) =>
              (sched'.pc = "finally" /\ sched'.runs = sched.runs) ]_vars
    /\ [][ sched.pc \in {"finally", "stopped"} =>
              (sched'.pc \in {"finally", "stopped"} /\ sched'.runs = sched.runs) ]_vars
    /\ (sched.pc = "wait" /\ sched.shutdown) ~> (sched.pc = "stopped" /\ sched.cleaned)

\* the first wait was ended by the shutdown event and the resources were released
C19_Witness ==
    /\ sched.wake = "shutdown"
    /\ sched.runs = 0
    /\ sched.pc = "stopped" /\ sched.cleaned /\ ~sched.crashed

----------------------------------------------------------------------------
(* One recovery sweep over every combination of eligible and ineligible days *)

SweepSeeds ==
    { Seed("failed", 0, NoTime, 0), Seed("completed", 0, NoTime, 0), NoDoc }

InitSweep ==
    /\ store \in [Days -> SweepSeeds]
    /\ hasData \in [Days -> BOOLEAN]
    /\ \E n \in {0, 1} :
          pairs = [d \in Days |-> IF ~hasData[d] THEN 0 ELSE IF d = 1 THEN n ELSE 1]
    /\ ops = 1
    /\ InitRest

NextSweep ==
    \/ \E p \in Procs : GocFind(p)
    \/ \E p \in Procs : GocInsert(p)
    \/ \E p \in Procs : ShouldProcess(p)
    \/ \E p \in Procs : MarkRunning(p)
    \/ \E p \in Procs : FetchPairs(p)
    \/ \E p \in Procs : NotifyEmpty(p)
    \/ \E p \in Procs : Evaluate(p)
    \/ \E p \in Procs : SaveResults(p)
    \/ \E p \in Procs : GenerateReport(p)
    \/ \E p \in Procs : SendEmails(p)
    \/ \E p \in Procs : RecordTimings(p)
    \/ \E p \in Procs : MarkCompleted(p)
    \/ \E p \in Procs : HandleFailure(p)
    \/ \E p \in Procs : StartSweep(p)
    \/ \E p \in Procs : FindCheck(p)
    \/ \E p \in Procs : SweepBegin(p)
    \/ \E p \in Procs : RecoverCheck(p)
    \/ \E p \in Procs : RecoverAfter(p)
    \/ \E p \in Procs : SweepLoop(p)

SpecSweep == InitSweep /\ [][NextSweep]_vars

\* C20: within one recovery sweep the days handed to run_daily_evaluation form a
\* strictly ascending sequence, oldest day first, whichever days are eligible,
\* and once the sweep has ended every day found eligible was handled in that order.
C20_SweepAscending ==
    \A p \in Procs :
        /\ \A i, j \in DOMAIN proc[p].passed :
               i < j => proc[p].passed[i] < proc[p].passed[j]
        /\ \A i \in DOMAIN proc[p].passed :
               \E k \in DOMAIN proc[p].missing : proc[p].missing[k] = proc[p].passed[i]
        /\ proc[p].pass = "ended" => Len(proc[p].passed) = Len(proc[p].missing)

\* a sweep that found all the days eligible ended after handing each of them over
C20_Witness ==
    \E p \in Procs :
        /\ proc[p].pass = "ended"
        /\ Len(proc[p].passed) = RECOVERY_LOOKBACK_DAYS
        /\ proc[p].passed[1] = 1

----------------------------------------------------------------------------
(* The stored record across writes *)

\* C21: every write of an existing day's record stamps updated_at with the
\* current time, so updated_at never decreases, and a write that changes the
\* stored status records the status it replaced in previous_status.
C21_UpdateAudit ==
    [][ \A d \in Days :
          (store[d] # NoDoc /\ store'[d] # NoDoc /\ store'[d] # store[d]) =>
              /\ store'[d].updated_at = now'
              /\ store'[d].updated_at >= store[d].updated_at
              /\ store'[d].status # store[d].status =>
                     store'[d].previous_status = store[d].status ]_vars

\* a record seeded FAILED was written RUNNING and then FAILED again after the
\* clock had advanced
C21_Witness ==
    \E d \in Days :
        /\ store0[d] # NoDoc /\ store0[d].status = "failed"
        /\ store[d].status = "failed"
        /\ store[d].previous_status = "running"
        /\ store[d].updated_at > InitNow

----------------------------------------------------------------------------
(* cleanup_old_states beside the operations that write the store *)

MinutesPerDay == 1440

\* batch_date of day d in minutes, midnight of today being 0: the window scanned
\* by _find_missing_evaluations ends with yesterday
BatchDate(d) == (d - 1 - RECOVERY_LOOKBACK_DAYS) * MinutesPerDay

\* the retention_days argument
RetentionChoices == 0..RECOVERY_LOOKBACK_DAYS

CleanupDeletes_AnyStatus(doc, d, retention_days) ==
    /\ doc # NoDoc
    /\ BatchDate(d) < now - retention_days * MinutesPerDay

\* delete_many({"batch_date": {"$lt": cutoff_date}, "status": "completed"})
CleanupDeletes(doc, d, retention_days) ==
    /\ doc # NoDoc
    /\ doc.status = "completed"
    /\ BatchDate(d) < now - retention_days * MinutesPerDay

CleanupOldStates(p, retention_days) ==
    /\ p \in active
    /\ proc[p].pc \in {"idle", "run_ret", "pass_ret"}
    /\ ops > 0
    /\ ops' = ops - 1
    /\ LET gone == {d \in Days : CleanupDeletes(store[d], d, retention_days)}
       IN /\ store' = [d \in Days |-> IF d \in gone THEN NoDoc ELSE store[d]]
          /\ copies' = [d \in Days |-> IF d \in gone THEN 0 ELSE copies[d]]
          /\ proc' = [proc EXCEPT ![p] =
                [IdleProc EXCEPT !.pc = "pass_ret", !.task = "cleanup",
                                 !.cur = retention_days,
                                 !.count = Cardinality(gone)]]
    /\ UNCHANGED <<now, ticks, faults>>
    /\ Frame /\ History

RetentionSeeds ==
    { Seed("completed", 0, NoTime, 0), Seed("failed", 0, NoTime, 0),
      Seed("skipped", 0, NoTime, 0) }

InitRetention ==
    /\ store \in [Days -> RetentionSeeds]
    /\ \E b \in BOOLEAN, n \in {0, 1} :
          /\ hasData = [d \in Days |-> b]
          /\ pairs = [d \in Days |-> IF ~b THEN 0 ELSE IF d = 1 THEN n ELSE 1]
    /\ ops = 2
    /\ InitRest

NextRetention ==
    \/ NextSweep
    \/ \E p \in Procs, r \in RetentionChoices : CleanupOldStates(p, r)

SpecRetention == InitRetention /\ [][NextRetention]_vars

CleanupStep ==
    \E p \in Procs : proc'[p].task = "cleanup" /\ ops' = ops - 1

\* C22: a stored record disappears only in a step of cleanup_old_states, and
\* then only if its status is COMPLETED and its day lies before the retention
\* cutoff; cleanup_old_states leaves every other record exactly as it was.
C22_OnlyCleanupDeletes ==
    [][ \A d \in Days :
          /\ (store[d] # NoDoc /\ store'[d] = NoDoc) =>
                /\ CleanupStep
                /\ store[d].status = "completed"
                /\ \E p \in Procs :
                      /\ proc'[p].task = "cleanup"
                      /\ BatchDate(d) < now - proc'[p].cur * MinutesPerDay
          /\ CleanupStep => store'[d] \in {store[d], NoDoc} ]_vars

\* cleanup_old_states removed an old COMPLETED record while an equally old
\* FAILED record and a COMPLETED record inside the horizon stayed
C22_Witness ==
    \E p \in Procs, a, b, c \in Days :
        /\ proc[p].task = "cleanup" /\ proc[p].count = 1
        /\ store0[a] # NoDoc /\ store0[b] # NoDoc /\ store0[c] # NoDoc
        /\ store0[a].status = "completed" /\ store[a] = NoDoc
        /\ b < a /\ store0[b].status = "failed" /\ store[b] = store0[b]
        /\ c > a /\ store0[c].status = "completed" /\ store[c] = store0[c]

----------------------------------------------------------------------------
(* The status life cycle *)

TerminalStatuses == {"completed", "skipped", "cancelled"}

StatusEdges ==
    { <<"pending", "running">>, <<"running", "completed">>, <<"running", "failed">>,
      <<"running", "skipped">>, <<"failed", "running">>, <<"partial", "running">> }
    \cup { <<s, "cancelled">> : s \in BatchStatus }

\* C23: a stored status of COMPLETED, SKIPPED or CANCELLED never changes again,
\* and every change of a day's stored status is one of the edges
\* PENDING->RUNNING, RUNNING->COMPLETED, RUNNING->FAILED, RUNNING->SKIPPED,
\* FAILED->RUNNING, PARTIAL->RUNNING, any->CANCELLED.
C23_TerminalAndEdges ==
    [][ \A d \in Days :
          (store[d] # NoDoc /\ store'[d] # NoDoc /\ store'[d].status # store[d].status) =>
              /\ store[d].status \notin TerminalStatuses
              /\ <<store[d].status, store'[d].status>> \in StatusEdges ]_vars

----------------------------------------------------------------------------
(* Stuck runs and the recovery sweep *)

StuckAtStart(d) ==
    /\ store0[d] # NoDoc
    /\ store0[d].status = "running"
    /\ store0[d].started_at # NoTime
    /\ InitNow - store0[d].started_at > StuckMinutes

\* C24: when a recovery sweep has ended, every day of the window whose record
\* was RUNNING with started_at more than two hours old was selected by the
\* sweep and had its pipeline executed again by run_daily_evaluation.
C24_StuckHealedBySweep ==
    \A p \in Procs :
        (proc[p].task = "sweep" /\ proc[p].pass = "ended") =>
            \A d \in Days :
                StuckAtStart(d) =>
                    /\ \E k \in DOMAIN proc[p].missing : proc[p].missing[k] = d
                    /\ execs[d] >= 1

----------------------------------------------------------------------------
(* check_and_recover_missed_batches *)

QuickDays == 3

\* recent_days = min(3, self.recovery_lookback_days)
RecentDays == IF QuickDays < RECOVERY_LOOKBACK_DAYS THEN QuickDays ELSE RECOVERY_LOOKBACK_DAYS

QuickWindow == {d \in Days : d > RECOVERY_LOOKBACK_DAYS - RecentDays}

\* does the quick check put the day scanned on dates_to_recover
QuickNeedsRecovery(s, t) ==
    s.status \in {"failed", "pending", "partial"} /\ CanRetry(s, t)

StartQuick(p) ==
    /\ p \in active
    /\ proc[p].pc \in {"idle", "run_ret", "pass_ret"}
    /\ ops > 0
    /\ ops' = ops - 1
    /\ LET first == RECOVERY_LOOKBACK_DAYS - RecentDays + 1
       IN proc' = [proc EXCEPT ![p] = [IdleProc EXCEPT !.pc = "quick_goc", !.task = "quick",
                                                       !.day = first, !.cur = first]]
    /\ UNCHANGED <<now, ticks, store, copies, faults>>
    /\ Frame /\ History

\* the while loop over the recent dates
QuickScan(p) ==
    /\ p \in active
    /\ proc[p].pc = "quick_check"
    /\ LET l == proc[p]
           d == l.cur
           m == IF QuickNeedsRecovery(l.rs, now) THEN Append(l.missing, d) ELSE l.missing
       IN proc' = [proc EXCEPT ![p] =
             IF d + 1 \in Days
             THEN [l EXCEPT !.missing = m, !.cur = d + 1, !.day = d + 1, !.pc = "quick_goc"]
             ELSE [l EXCEPT !.missing = m, !.cur = d + 1, !.pc = "quick_begin"]]
    /\ UNCHANGED <<now, ticks, store, copies, ops, faults>>
    /\ Frame /\ History

\* for date in dates_to_recover: the first date, or the return when there is none
QuickBegin(p) ==
    /\ p \in active
    /\ proc[p].pc = "quick_begin"
    /\ LET l == proc[p]
       IN proc' = [proc EXCEPT ![p] =
             IF l.missing = <<>>
             THEN [l EXCEPT !.count = 0, !.pass = "ended", !.pc = "pass_ret"]
             ELSE [l EXCEPT !.idx = 1, !.day = l.missing[1], !.pc = "rec_goc"]]
    /\ UNCHANGED <<now, ticks, store, copies, ops, faults>>
    /\ Frame /\ History

\* after _recover_single_batch returned: count a success, go on or return
QuickLoop(p) ==
    /\ p \in active
    /\ proc[p].pc = "rec_ret"
    /\ proc[p].task = "quick"
    /\ LET l == proc[p]
           r == IF l.success = "true" THEN l.recovered + 1 ELSE l.recovered
       IN proc' = [proc EXCEPT ![p] =
             IF l.idx < Len(l.missing)
             THEN [l EXCEPT !.recovered = r, !.idx = @ + 1,
                            !.day = l.missing[l.idx + 1], !.pc = "rec_goc"]
             ELSE [l EXCEPT !.recovered = r, !.count = r,
                            !.pass = "ended", !.pc = "pass_ret"]]
    /\ UNCHANGED <<now, ticks, store, copies, ops, faults>>
    /\ Frame /\ History

InitQuick ==
    /\ \E r \in WideSeeds \cup {NoDoc} :
          store = [d \in Days |-> IF d = RECOVERY_LOOKBACK_DAYS THEN r ELSE NoDoc]
    /\ \E b \in BOOLEAN, n \in {0, 1} :
          /\ hasData = [d \in Days |-> b]
          /\ pairs = [d \in Days |-> IF ~b THEN 0 ELSE IF d = RECOVERY_LOOKBACK_DAYS THEN 1 ELSE n]
    /\ ops = 1
    /\ InitRest

NextQuick ==
    \/ NextSweep
    \/ \E p \in Procs : StartQuick(p)
    \/ \E p \in Procs : QuickScan(p)
    \/ \E p \in Procs : QuickBegin(p)
    \/ \E p \in Procs : QuickLoop(p)

SpecQuick == InitQuick /\ [][NextQuick]_vars

\* C25: when the quick check has scanned its window, the days it selected are
\* exactly the days of that window the sweep's rule would select from the same
\* records and data probe: COMPLETED and SKIPPED excluded, FAILED and PARTIAL only
\* when retryable, PENDING only with input data, stuck RUNNING included.
C25_QuickEqualsSweep ==
    \A p \in Procs :
        proc[p].pc = "quick_begin" =>
            {proc[p].missing[k] : k \in DOMAIN proc[p].missing} =
                {d \in QuickWindow : NeedsEvaluation(store[d], now, hasData[d])}

----------------------------------------------------------------------------
(* The retry delay *)

\* one day with input data, never run or failed before, operated on repeatedly
RetrySeeds ==
    { Seed("failed", rc, NoTime, 0) : rc \in {0, DefaultMaxRetries - 1} } \cup {NoDoc}

InitRetry ==
    /\ \E r \in RetrySeeds : store = [d \in Days |-> IF d = 1 THEN r ELSE NoDoc]
    /\ hasData = [d \in Days |-> d = 1]
    /\ \E n \in PairCounts : pairs = [d \in Days |-> IF d = 1 THEN n ELSE 0]
    /\ ops = MaxOps
    /\ InitRest

SpecRetry == InitRetry /\ [][Next]_vars

\* C26: no step writes RUNNING over a record whose retry_after is still in the
\* future, and should_process_batch answers false for every FAILED, PARTIAL or
\* PENDING record it reads whose retry_after is later than the time of the decision.
C26_NoRunBeforeRetryAfter ==
    /\ [][ \A d \in Days :
             (store[d] # NoDoc /\ store[d].status # "running"
                  /\ store'[d] # NoDoc /\ store'[d].status = "running") =>
                 (store[d].retry_after = NoTime \/ now >= store[d].retry_after) ]_vars
    /\ [] \A p \in Procs :
             (/\ proc[p].gate # "none"
              /\ proc[p].read.status \in {"failed", "partial", "pending"}
              /\ proc[p].read.retry_after # NoTime
              /\ proc[p].decided < proc[p].read.retry_after) => proc[p].gate = "false"

\* a FAILED record with retries left and input data was refused because its
\* retry_after, set by the failure of an earlier run, had not been reached
C26_Witness ==
    \E p \in Procs :
        /\ proc[p].gate = "false"
        /\ proc[p].read.status = "failed"
        /\ proc[p].read.retry_count < proc[p].read.max_retries
        /\ proc[p].read.retry_after # NoTime
        /\ proc[p].decided < proc[p].read.retry_after
        /\ hasData[proc[p].day]
        /\ execs[proc[p].day] >= 1

----------------------------------------------------------------------------
(* The retry counter *)

\* C27: in every stored record retry_count is at most max_retries, whatever
\* failures, retries, stuck reclassifications and recovery runs came before.
C27_RetryCountBounded ==
    \A d \in Days : store[d] # NoDoc => store[d].retry_count <= store[d].max_retries

\* a record stuck in RUNNING with its retries used up was reclassified, run
\* again and failed again
C27_Witness ==
    \E d \in Days :
        /\ StuckAtStart(d)
        /\ store0[d].retry_count = store0[d].max_retries
        /\ execs[d] >= 1
        /\ store[d].status = "failed"
        /\ store[d].failed_at >= InitNow

----------------------------------------------------------------------------
(* The error fields *)

\* C28: every stored record whose status is FAILED has failed_at set and has
\* error_message and error_type both set, whether a pipeline exception or the
\* reclassification of a stuck run made it FAILED.
C28_FailedHasErrorFields ==
    \A d \in Days :
        (store[d] # NoDoc /\ store[d].status = "failed") =>
            /\ store[d].failed_at # NoTime
            /\ store[d].error_message # "none"
            /\ store[d].error_type # "none"

----------------------------------------------------------------------------
(* The last persist of a run *)

\* C29: when run_daily_evaluation has returned after passing the gate, by
\* success, by the empty-day path or by an exception of the pipeline, the stored
\* record of the day equals the state object the run ended with, field by field.
C29_FinalStatePersisted ==
    \A p \in Procs :
        (proc[p].pc = "run_ret" /\ proc[p].gate = "true") =>
            store[proc[p].day] = proc[p].st

\* a run that raised after the report had been generated returned with the
\* FAILED state, its error fields and its retry delay stored
C29_Witness ==
    \E p \in Procs :
        /\ proc[p].pc = "run_ret" /\ proc[p].gate = "true" /\ proc[p].raised
        /\ proc[p].st.status = "failed"
        /\ proc[p].st.report_generated
        /\ proc[p].st.retry_after # NoTime
        /\ store[proc[p].day] = proc[p].st

----------------------------------------------------------------------------
(* A refused day *)

\* C30: when should_process_batch answered false, run_daily_evaluation returns
\* true without fetching, evaluating, saving, reporting or notifying, and the
\* stored record is the one the decision was taken on: status, counters and
\* retry fields are as they were.
C30_RefusedRunIsNoOp ==
    \A p \in Procs :
        (proc[p].pc = "run_ret" /\ proc[p].gate = "false") =>
            /\ proc[p].result = "true"
            /\ proc[p].batch = NoBatch
            /\ proc[p].mail = <<>>
            /\ proc[p].st = proc[p].read
            /\ store[proc[p].day] = proc[p].read

\* a FAILED record with its retries used up was refused and the call returned
C30_Witness ==
    \E p \in Procs :
        /\ proc[p].pc = "run_ret" /\ proc[p].gate = "false"
        /\ proc[p].result = "true"
        /\ proc[p].read.status = "failed"
        /\ proc[p].read.retry_count = proc[p].read.max_retries
        /\ store[proc[p].day] = proc[p].read

----------------------------------------------------------------------------
(* Recovery provenance *)

RecoveryBase(d) == IF store0[d] = NoDoc THEN 0 ELSE store0[d].recovery_count

\* C31: whenever the recovery manager is about to call run_daily_evaluation for
\* a day, the stored record of that day has is_recovery true,
\* recovery_triggered_by set, and a recovery_count one greater than before the
\* attempt.
C31_RecoveryMarkedBeforeRun ==
    \A p \in Procs :
        (proc[p].task \in {"sweep", "quick"} /\ proc[p].pc = "run_goc") =>
            /\ store[proc[p].day].is_recovery
            /\ store[proc[p].day].recovery_triggered_by # "none"
            /\ store[proc[p].day].recovery_count = RecoveryBase(proc[p].day) + 1

----------------------------------------------------------------------------
(* Shutdown and the scheduler's sleeps *)

\* C32: once the shutdown event is set no suspension of the scheduler lets
\* time pass (the wait for the next run, the sleep after a run and the cooldown
\* after an error end at once) and no run_daily_evaluation is started.
C32_SleepsEndOnShutdown ==
    [][ sched.shutdown =>
           /\ sched'.clock = sched.clock
           /\ sched'.runs = sched.runs ]_vars

----------------------------------------------------------------------------
(* The order of work after a timer wake *)

----------------------------------------------------------------------------
(* The sweep on startup *)

\* C34: the startup sweep has run exactly once and returned by the time the
\* loop computes its first next-run time, it never runs again, and no scheduled
\* run_daily_evaluation happens before it has returned.
C34_StartupSweepOnce ==
    /\ sched.startup_sweeps <= 1
    /\ (sched.loop_count >= 1 \/ sched.runs >= 1
           \/ sched.pc \in {"wait", "execute", "quick", "retention", "delay"})
          => sched.startup_sweeps = 1
    /\ sched.pc \in {"startup", "startup_sweep"} =>
          (sched.startup_sweeps = 0 /\ sched.loop_count = 0 /\ sched.runs = 0)

\* a scheduled run took place in the second loop iteration, after one startup sweep
C34_Witness ==
    /\ sched.startup_sweeps = 1
    /\ sched.loop_count = 2
    /\ sched.runs >= 1
    /\ sched.pc = "quick"

----------------------------------------------------------------------------
(* EvaluationService.evaluate_batch *)

MaxPairs == 3
SubBatchSize == 2
EvalMaxRetries == 3

\* how the judge behaves for a pair
PairKinds == {"pass", "fail", "always_raises", "raises_then_passes", "worker_raises"}

\* the n-th call of correctness_metric.measure for a pair of this kind
Attempt(kind, n) ==
    CASE kind = "pass" -> "pass"
      [] kind = "fail" -> "fail"
      [] kind = "raises_then_passes" -> IF n < EvalMaxRetries THEN "raise" ELSE "pass"
      [] OTHER -> "raise"

\* _evaluate_single_pair: the while loop with retries, and the fallthrough
RECURSIVE EvaluateSinglePairFrom(_, _)
EvaluateSinglePairFrom(kind, retries) ==
    IF retries >= EvalMaxRetries THEN "error"
    ELSE IF Attempt(kind, retries + 1) # "raise" THEN Attempt(kind, retries + 1)
    ELSE IF retries + 1 >= EvalMaxRetries THEN "error"
    ELSE EvaluateSinglePairFrom(kind, retries + 1)

EvaluateSinglePair(kind) == EvaluateSinglePairFrom(kind, 0)

\* asyncio.gather(*tasks, return_exceptions=True): a result or the exception
GatherResult(kind) ==
    IF kind = "worker_raises" THEN "exception" ELSE EvaluateSinglePair(kind)

RECURSIVE ProcessSubBatch_DropsExceptions(_, _)
ProcessSubBatch_DropsExceptions(sub, offset) ==
    IF sub = <<>> THEN <<>>
    ELSE (IF GatherResult(Head(sub)) = "exception" THEN <<>>
          ELSE << [pair |-> offset + 1, status |-> GatherResult(Head(sub))] >>)
         \o ProcessSubBatch_DropsExceptions(Tail(sub), offset + 1)

\* _process_sub_batch: an exception becomes _create_error_result(pairs[i], ...)
ProcessSubBatch(sub, offset) ==
    [k \in 1..Len(sub) |->
        [pair |-> offset + k,
         status |-> IF GatherResult(sub[k]) = "exception" THEN "error"
                    ELSE GatherResult(sub[k])]]

CountStatus(results, st) == Cardinality({k \in DOMAIN results : results[k].status = st})

\* for i in range(0, len(pairs), self.batch_size): one sub-batch
EvalSubBatch(p) ==
    /\ p \in active
    /\ proc[p].pc = "eval_loop"
    /\ proc[p].i < Len(proc[p].pairs_arg)
    /\ LET l == proc[p]
           last == IF l.i + SubBatchSize < Len(l.pairs_arg) THEN l.i + SubBatchSize
                   ELSE Len(l.pairs_arg)
           sub == SubSeq(l.pairs_arg, l.i + 1, last)
       IN proc' = [proc EXCEPT ![p] =
             [l EXCEPT !.evaluation_results = @ \o ProcessSubBatch(sub, l.i),
                       !.i = @ + SubBatchSize]]
    /\ UNCHANGED <<now, ticks, store, copies, ops, faults>>
    /\ Frame /\ History

\* after the loop: _calculate_batch_statistics, return
EvalStatistics(p) ==
    /\ p \in active
    /\ proc[p].pc = "eval_loop"
    /\ proc[p].i >= Len(proc[p].pairs_arg)
    /\ LET l == proc[p]
           r == l.evaluation_results
       IN proc' = [proc EXCEPT ![p] =
             [l EXCEPT !.batch = BatchStatistics(CountStatus(r, "pass"),
                                                 CountStatus(r, "fail"),
                                                 CountStatus(r, "error")),
                       !.pc = "eval_done"]]
    /\ UNCHANGED <<now, ticks, store, copies, ops, faults>>
    /\ Frame /\ History

PairLists == UNION { [1..n -> PairKinds] : n \in 0..MaxPairs }

InitEval ==
    /\ store = [d \in Days |-> NoDoc]
    /\ hasData = [d \in Days |-> FALSE]
    /\ pairs = Zero
    /\ ops = 0
    /\ now = InitNow /\ ticks = 0
    /\ copies = Zero
    /\ active = {1}
    /\ faults = 0
    /\ execs = Zero /\ retried = Zero /\ saved = Zero
    /\ store0 = store
    /\ sched = SchedOff
    /\ \E inp \in PairLists :
          proc = [p \in Procs |->
                    IF p = 1 THEN [IdleProc EXCEPT !.pc = "eval_loop", !.task = "evaluate",
                                                   !.pairs_arg = inp]
                    ELSE IdleProc]

NextEval ==
    \/ \E p \in Procs : EvalSubBatch(p)
    \/ \E p \in Procs : EvalStatistics(p)

SpecEval == InitEval /\ [][NextEval]_vars

ExpectedStatus(kind) ==
    CASE kind = "pass" -> "pass"
      [] kind = "fail" -> "fail"
      [] kind = "raises_then_passes" -> "pass"
      [] kind = "always_raises" -> "error"
      [] kind = "worker_raises" -> "error"

\* C35: evaluate_batch produces one result per input pair, in order; a pair
\* whose evaluation raises on every attempt, or whose worker raises, gets a
\* result with status ERROR, and the other pairs keep their own results.
C35_OneResultPerPair ==
    \A p \in Procs :
        proc[p].task = "evaluate" =>
            LET l == proc[p]
                done == IF l.i < Len(l.pairs_arg) THEN l.i ELSE Len(l.pairs_arg)
            IN /\ Len(l.evaluation_results) = done
               /\ \A k \in DOMAIN l.evaluation_results :
                     /\ l.evaluation_results[k].pair = k
                     /\ l.evaluation_results[k].status = ExpectedStatus(l.pairs_arg[k])
               /\ l.pc = "eval_done" =>
                     /\ Len(l.evaluation_results) = Len(l.pairs_arg)
                     /\ l.batch.total_evaluations = Len(l.pairs_arg)

\* three pairs in two sub-batches: the first raised on every attempt, the third
\* raised in its worker, and the second kept its PASS
C35_Witness ==
    \E p \in Procs :
        /\ proc[p].pc = "eval_done"
        /\ proc[p].pairs_arg = <<"always_raises", "pass", "worker_raises">>
        /\ proc[p].evaluation_results[1].status = "error"
        /\ proc[p].evaluation_results[2].status = "pass"
        /\ proc[p].evaluation_results[3].status = "error"
        /\ proc[p].batch.errors = 2

----------------------------------------------------------------------------
\* C36: in every persisted record processed_pairs <= total_pairs, across first
\* runs, failures and retries of the same day.
C36_ProcessedWithinTotal ==
    \A d \in Days :
        store[d] # NoDoc => store[d].processed_pairs <= store[d].total_pairs

----------------------------------------------------------------------------
\* C37: a day whose record is COMPLETED and whose evaluation results were saved,
\* in this or an earlier attempt, has email_sent = true: a failure after the
\* results were saved, followed by a retry, never completes the day unreported.
C37_CompletedDayReported ==
    \A d \in Days :
        (store[d] # NoDoc /\ store[d].status = "completed" /\ saved[d] > 0) =>
            store[d].email_sent

----------------------------------------------------------------------------
\* C38: for a day whose run_daily_evaluation was called by a recovery pass,
\* _recover_single_batch returns true exactly when run_daily_evaluation returned
\* true, so the count a pass returns is the number of attempted days that succeeded.
C38_RecoverResultIsRunResult ==
    \A p \in Procs :
        (proc[p].pc = "rec_ret" /\ proc[p].result # "none") =>
            (proc[p].success = "true" <=> proc[p].result = "true")

----------------------------------------------------------------------------
\* C39: when a recovery pass has ended, a day's recovery fields were changed only
\* if the pipeline executed that day in the pass; a day with no input data whose
\* record was absent or PENDING keeps is_recovery = false and recovery_count = 0.
C39_RecoveryMarksOnlyExecutedDays ==
    \A p \in Procs :
        (proc[p].task \in {"sweep", "quick"} /\ proc[p].pc = "pass_ret") =>
            \A d \in Days :
                store[d] # NoDoc =>
                    /\ store[d].recovery_count > RecoveryBase(d) => execs[d] >= 1
                    /\ (~hasData[d] /\ (store0[d] = NoDoc \/ store0[d].status = "pending")) =>
                          (~store[d].is_recovery /\ store[d].recovery_count = 0)

----------------------------------------------------------------------------
\* C40: the next run computed from the current time is strictly later than it and
\* at most 24 hours later, run_daily_evaluation is started only by a timer wake,
\* once per wake, and each scheduled run is for a later day than the one before.
C40_OneRunPerScheduledDay ==
    [][ /\ sched.pc = "wait" =>
              /\ Before(sched.clock, sched.next_run)
              /\ ~Before([sched.clock EXCEPT !.day = @ + 1], sched.next_run)
        /\ sched'.runs # sched.runs =>
              /\ sched'.runs = sched.runs + 1
              /\ sched.pc = "execute" /\ sched.wake = "timeout"
              /\ sched.runs >= 1 => sched'.evaluation_date > sched.evaluation_date
      ]_vars

====
